---- MODULE Spec2Model ----
(***************************************************************************)
(* A model of the rust-cycle bike computer's workout scheduler             *)
(* (src/src/workout.rs) and of its revolution-counter delta engine         *)
(* (src/src/ble/csc_measurement.rs, src/src/ble/revolution_data.rs).       *)
(*                                                                         *)
(* Time is counted in ticks of 50 ms of the monotonic clock that           *)
(* `start.elapsed()` reads: the poll sleep of the scheduler is one tick.   *)
(***************************************************************************)
EXTENDS Integers, Sequences, FiniteSets, TLC

\* ------------------------------------------------------------------ bounds

\* Longest duration of one step of a modelled workout, in ticks.
MaxWait == 2
\* Largest repeat count of the inner node of a modelled workout.
MaxRepeat == 1
\* Number of add_offset calls made during a run.
MaxOffsetCalls == 2
\* Number of exit() calls made on the handle.
MaxExitCalls == 2

\* ------------------------------------------------------- program constants

\* thread::sleep(Duration::from_millis(50)): one tick of 50 ms.
PollTicks == 1
\* Ticks per second at 50 ms a tick.
TicksPerSec == 20
\* Duration::from_secs(1000000), the duration given to the tail step.
TailSecs == 1000000
\* The deltas main.rs passes to add_offset.
OffsetStep == 5
\* Powers of the modelled steps and of the tail (values main.rs uses).
PowerA == 140
PowerB == 320
PowerT == 160

\* ---------------------------------------------------------- Option, widths

None == <<>>
Some(x) == <<x>>

\* `x as i16` of a u16, a wrapping i16 addition, and `x as u16` of an i16.
AsI16(x) == IF x >= 32768 THEN x - 65536 ELSE x
WrapI16(x) == ((x + 32768) % 65536) - 32768
AsU16(x) == x % 65536

\* ---------------------------------------------------------------- CycleTree

Leaf(l) == <<"Leaf", l>>
Node(c, ws) == <<"Node", c, ws>>

RECURSIVE flatten(_)
RECURSIVE FlattenChildren(_)
RECURSIVE FlattenRepeat(_, _)

\* for w in ws { flatten(w, v) }
FlattenChildren(ws) ==
    IF ws = <<>> THEN <<>> ELSE flatten(Head(ws)) \o FlattenChildren(Tail(ws))

RECURSIVE RepeatSeq(_, _)
\* The sequence s laid out c times.
RepeatSeq(c, s) == IF c = 0 THEN <<>> ELSE s \o RepeatSeq(c - 1, s)

RECURSIVE FlattenRepeat_EachChild(_, _)
\* Variant: each child is repeated c times on its own.
FlattenRepeat_EachChild(c, ws) ==
    IF ws = <<>> THEN <<>>
    ELSE RepeatSeq(c, flatten(Head(ws))) \o FlattenRepeat_EachChild(c, Tail(ws))

\* for _ in 0..*c { ... }
FlattenRepeat(c, ws) ==
    IF c = 0 THEN <<>> ELSE FlattenChildren(ws) \o FlattenRepeat(c - 1, ws)

\* flatten(cycle_tree, v): what the call appends to v.
flatten(cycle_tree) ==
    IF cycle_tree[1] = "Leaf"
    THEN <<cycle_tree[2]>>
    ELSE FlattenRepeat(cycle_tree[2], cycle_tree[3])

\* CycleTree::into_iter
into_iter(cycle_tree) == flatten(cycle_tree)

\* tail.map(|x| (Duration::from_secs(1000000), x)).into_iter()
tail_iter(t) ==
    IF t = None THEN <<>> ELSE <<<<TailSecs * TicksPerSec, t[1]>>>>

\* ct.into_iter().chain(tail_iter)
Chain(c, t) == into_iter(c) \o tail_iter(t)

\* single_value(power)
single_value(p) == [ct |-> Node(0, <<>>), tail |-> Some(p)]

\* The workouts of the model: a warm-up step followed by a repeated step
\* of the longest duration (the shape of interval_example and
\* create_big_start_interval), and single_value; each with and without a
\* tail.
Workouts ==
    {single_value(PowerT)}
    \cup { [ct |-> Node(1, <<Leaf(<<w, PowerA>>),
                             Node(r, <<Leaf(<<MaxWait, PowerB>>)>>)>>),
            tail |-> t] :
           w \in 1..MaxWait, r \in 0..MaxRepeat, t \in {None, Some(PowerT)} }

\* ------------------------------------------------------------ delta engine

\* Event times are held in ticks of the sensor's 1/1024 s clock: the f64 the
\* code holds is ticks / 1024.0, and every sum and difference the code forms
\* of such values is exact in f64, so the tick arithmetic below is the
\* code's arithmetic.
ClockHz == 1024
\* 0b1000000 as f64: the seconds added when the event time went backwards.
WrapSeconds == 64
\* 0x10000: the revolutions added when the crank count did not increase.
CrankWrap == 65536
\* The crank ceiling, in revolutions per minute.
CrankCeiling == 271
\* new_revolutions as f64 * 60.0 / duration
SecondsPerMinute == 60

\* Values of tests::overflow_works.
TestPrevCount == 4434
TestPrevTicks == 64447
TestCurCount == 4436
TestCurTicks == 203

\* How far the sampled counts and event times reach in from 0 and from the
\* top of the 16-bit range.
EdgeWidth == 1

RevolutionData(c, t) == [revolution_count |-> c, last_revolution_event_time |-> t]

\* a.map_or(0.0, |x| x.last_revolution_event_time)
EventTimeOrZero(o) == IF o = None THEN 0 ELSE o[1].last_revolution_event_time

\* a.map_or(0, |x| x.revolution_count)
CountOrZero(o) == IF o = None THEN 0 ELSE o[1].revolution_count

\* Variant: the wrap branch is also taken when the two event times are equal.
checked_duration_Strict(prev, cur) ==
    LET a_last_revolution_event_time == EventTimeOrZero(prev)
    IN  IF cur.last_revolution_event_time > a_last_revolution_event_time
        THEN cur.last_revolution_event_time - a_last_revolution_event_time
        ELSE WrapSeconds * ClockHz + cur.last_revolution_event_time
                 - a_last_revolution_event_time

\* checked_duration(a, b), in ticks.
checked_duration(prev, cur) ==
    LET a_last_revolution_event_time == EventTimeOrZero(prev)
    IN  IF cur.last_revolution_event_time >= a_last_revolution_event_time
        THEN cur.last_revolution_event_time - a_last_revolution_event_time
        ELSE WrapSeconds * ClockHz + cur.last_revolution_event_time
                 - a_last_revolution_event_time

\* A u32 subtraction: its value, and whether it went below zero (a panic in
\* a build with overflow checks, a wrapped value in one without).
U32Sub(x, y) == [v |-> IF x >= y THEN x - y ELSE 0, underflow |-> x < y]

\* Variant: equal counts are taken as no revolution instead of a wrap.
CrankNewRevolutions_NoWrapOnEqual(prev, cur) ==
    LET a_revolution_count == CountOrZero(prev)
    IN  IF cur.revolution_count >= a_revolution_count
        THEN U32Sub(cur.revolution_count, a_revolution_count)
        ELSE U32Sub(CrankWrap + cur.revolution_count, a_revolution_count)

\* new_revolutions of the crank delta.
CrankNewRevolutions(prev, cur) ==
    LET a_revolution_count == CountOrZero(prev)
    IN  IF cur.revolution_count > a_revolution_count
        THEN U32Sub(cur.revolution_count, a_revolution_count)
        ELSE U32Sub(CrankWrap + cur.revolution_count, a_revolution_count)

\* rpm = revs as f64 * 60.0 / duration, kept as the exact fraction
\* revs * 60 * 1024 / ticks.
Rpm(revs, ticks) == [revs |-> revs, ticks |-> ticks]

\* Variant: a rate equal to the ceiling is rejected too.
RpmExceeds_AtCeiling(rpm, ceiling) ==
    rpm.revs >= (ceiling * rpm.ticks + SecondsPerMinute * ClockHz - 1)
                    \div (SecondsPerMinute * ClockHz)

\* rpm > ceiling.  revs * 60 * 1024 > ceiling * ticks, with the integer revs
\* compared to the floor of the quotient to stay within 32-bit integers.
RpmExceeds(rpm, ceiling) ==
    rpm.revs > (ceiling * rpm.ticks) \div (SecondsPerMinute * ClockHz)

\* What a delta call leaves: the locals it computed and the value returned.
NoOut == [op |-> "none", duration |-> 0, computed |-> FALSE,
          new_revolutions |-> 0, underflow |-> FALSE, panicked |-> FALSE,
          result |-> None]

\* checked_crank_rpm_and_new_count_rev_data(a, b): the possible outcomes.
\* An underflowing subtraction either panics or wraps to a count so large
\* that the rate is over the ceiling.
CrankOutcomes(prev, cur) ==
    LET duration == checked_duration(prev, cur)
        nr == CrankNewRevolutions(prev, cur)
        rpm == Rpm(nr.v, duration)
        base == [op |-> "crank", duration |-> duration, computed |-> TRUE,
                 new_revolutions |-> nr.v, underflow |-> nr.underflow,
                 panicked |-> FALSE, result |-> None]
    IN  IF duration = 0
        THEN {[NoOut EXCEPT !.op = "crank"]}
        ELSE IF nr.underflow
        THEN {[base EXCEPT !.panicked = TRUE], base}
        ELSE IF RpmExceeds(rpm, CrankCeiling)
        THEN {base}
        ELSE {[base EXCEPT !.result = Some([rpm |-> rpm, new |-> nr.v])]}

\* The sampled 16-bit values: the low and the high end of the range, and the
\* values of the test.
Edge16 == (0..EdgeWidth) \cup ((CrankWrap - 1 - EdgeWidth)..(CrankWrap - 1))
CrankSnapshots ==
    { RevolutionData(c, t) :
        c \in Edge16 \cup {TestPrevCount, TestCurCount},
        t \in Edge16 \cup {TestPrevTicks, TestCurTicks} }

\* ------------------------------------------------------------------- clock

\* Every finite step of every modelled workout has ended by Horizon.
Horizon == MaxWait * (MaxRepeat + 1) + 1
\* An instant after the cutoff of every tail.
Far == Horizon + TailSecs * TicksPerSec + 1
\* The clock reads 0..Horizon exactly; Horizon also stands for every instant
\* from Horizon up to the cutoff of the tail, and Far for the instants after it.
TimePoints == (0..Horizon) \cup {Far}

Min(x, y) == IF x <= y THEN x ELSE y

VARIABLES
    workout,      \* the Workout { ct, tail } that run() consumes
    iter,         \* the items left in ct.into_iter().chain(tail_iter)
    pc,           \* position of the scheduler thread
    d,            \* its cumulative cutoff
    power,        \* the power of the item it holds
    last_offset,  \* the offset it applied last
    running,      \* WorkoutState.running
    offset,       \* WorkoutState.offset
    join_handle,  \* WorkoutHandle.join_handle is Some
    exitPc,       \* position of the thread that calls exit()
    exitCalls,    \* exit() calls started
    now,          \* start.elapsed(), in ticks
    lastCall,     \* the last set_power invocation
    offsetCalls,  \* number of add_offset calls so far
    deltaSum,     \* the sum of the deltas passed to add_offset so far
    a,            \* delta engine: the previous snapshot, an Option
    b,            \* delta engine: the current snapshot
    out           \* delta engine: what the last call computed

vars == <<workout, iter, pc, d, power, last_offset, running, offset,
          join_handle, exitPc, exitCalls, now, lastCall, offsetCalls,
          deltaSum, a, b, out>>

schedVars == <<iter, pc, d, power, last_offset>>
stateVars == <<running, offset>>
exitVars == <<join_handle, exitPc, exitCalls>>
callVars == <<lastCall>>
offsetVars == <<offsetCalls, deltaSum>>
deltaVars == <<a, b, out>>
workoutVars == <<workout, schedVars, stateVars, exitVars, now, callVars, offsetVars>>

\* All items of the workout, and the number the scheduler has taken.
All == Chain(workout.ct, workout.tail)
Taken == Len(All) - Len(iter)

\* set_power has not been invoked yet.
NoCall == [step |-> 0, base |-> 0, arg |-> 0, entry |-> FALSE]

\* Workout::run up to thread::spawn: the state is {running: true, offset: 0},
\* the thread has d = 0 and last_offset = 0 and has taken no item.
Init ==
    /\ workout \in Workouts
    /\ iter = Chain(workout.ct, workout.tail)
    /\ pc = "next"
    /\ d = 0
    /\ power = 0
    /\ last_offset = 0
    /\ running = TRUE
    /\ offset = 0
    /\ join_handle = TRUE
    /\ exitPc = "idle"
    /\ exitCalls = 0
    /\ now = 0
    /\ lastCall = NoCall
    /\ offsetCalls = 0
    /\ deltaSum = 0
    /\ a = None
    /\ b = RevolutionData(0, 0)
    /\ out = NoOut

\* The argument of set_power: ((power as i16) + off) as u16.
PowerArg(p, off) == AsU16(WrapI16(AsI16(p) + off))

\* set_power(arg), invoked while the scheduler holds item number Taken: on
\* entry to the item, or from a poll.
SetPower(p, off, onEntry) ==
    lastCall' = [step |-> Taken, base |-> p, arg |-> PowerArg(p, off),
                 entry |-> onEntry]

\* Variant: the cutoff counts as passed as soon as it is reached.
CheckedSubIsSome_Strict(dd, e) == dd > e

\* `if let Some(_) = dd.checked_sub(e)`: dd - e does not underflow.
CheckedSubIsSome(dd, e) == dd >= e

\* Variant: a step is entered whether or not its cutoff has passed.
SchedNext_NoSkip ==
    /\ pc = "next"
    /\ IF iter = <<>>
       THEN /\ pc' = "done"
            /\ UNCHANGED <<iter, d, power>>
       ELSE /\ iter' = Tail(iter)
            /\ d' = d + Head(iter)[1]
            /\ power' = Head(iter)[2]
            /\ pc' = "call"
    /\ UNCHANGED <<workout, last_offset, stateVars, exitVars, now, callVars, offsetVars, deltaVars>>

\* Variant: the cutoff is counted from the moment the step is reached, as a
\* loop of accumulated sleeps would.
SchedNext_Relative ==
    /\ pc = "next"
    /\ IF iter = <<>>
       THEN /\ pc' = "done"
            /\ UNCHANGED <<iter, d, power>>
       ELSE /\ iter' = Tail(iter)
            /\ d' = now + Head(iter)[1]
            /\ power' = Head(iter)[2]
            /\ pc' = "call"
    /\ UNCHANGED <<workout, last_offset, stateVars, exitVars, now, callVars, offsetVars, deltaVars>>

\* The head of the for loop: take the next item, add its wait to d, read the
\* clock, and decide whether the step is entered or skipped.  The iterator
\* running out ends the thread.
SchedNext ==
    /\ pc = "next"
    /\ IF iter = <<>>
       THEN /\ pc' = "done"
            /\ UNCHANGED <<iter, d, power>>
       ELSE /\ iter' = Tail(iter)
            /\ d' = d + Head(iter)[1]
            /\ power' = Head(iter)[2]
            /\ pc' = IF CheckedSubIsSome(d + Head(iter)[1], now) THEN "call" ELSE "next"
    /\ UNCHANGED <<workout, last_offset, stateVars, exitVars, now, callVars, offsetVars, deltaVars>>

\* set_power(((power as i16) + last_offset) as u16) on entry to a step.
SchedCall ==
    /\ pc = "call"
    /\ SetPower(power, last_offset, TRUE)
    /\ pc' = "sleep"
    /\ UNCHANGED <<workout, iter, d, power, last_offset, stateVars, exitVars, now, offsetVars, deltaVars>>

\* thread::sleep(Duration::from_millis(50)): at least PollTicks pass.
SchedSleep ==
    /\ pc = "sleep"
    /\ \E t \in TimePoints :
        /\ t >= now
        /\ t >= Min(now + PollTicks, Horizon)
        /\ now' = t
    /\ pc' = "poll"
    /\ UNCHANGED <<workout, iter, d, power, last_offset, stateVars, exitVars, callVars, offsetVars, deltaVars>>

\* Variant: a poll that never looks at the offset.
SchedPoll_NoReapply ==
    /\ pc = "poll"
    /\ pc' = IF ~running THEN "done" ELSE "cutoff"
    /\ UNCHANGED <<workout, iter, d, power, last_offset, stateVars, exitVars, now,
                   callVars, offsetVars, deltaVars>>

\* Variant: a poll that never looks at the running flag.
SchedPoll_IgnoreRunning ==
    /\ pc = "poll"
    /\ pc' = "cutoff"
    /\ IF offset # last_offset
       THEN /\ last_offset' = offset
            /\ SetPower(power, offset, FALSE)
       ELSE UNCHANGED <<last_offset, callVars>>
    /\ UNCHANGED <<workout, iter, d, power, stateVars, exitVars, now, offsetVars, deltaVars>>

\* Variant: a poll that applies a changed offset before it looks at the
\* running flag.
SchedPoll_OffsetFirst ==
    /\ pc = "poll"
    /\ pc' = IF ~running THEN "done" ELSE "cutoff"
    /\ IF offset # last_offset
       THEN /\ last_offset' = offset
            /\ SetPower(power, offset, FALSE)
       ELSE UNCHANGED <<last_offset, callVars>>
    /\ UNCHANGED <<workout, iter, d, power, stateVars, exitVars, now, offsetVars, deltaVars>>

\* The critical section of a poll: leave if running is false, else apply a
\* changed offset with a new set_power call.
SchedPoll ==
    /\ pc = "poll"
    /\ IF ~running
       THEN /\ pc' = "done"
            /\ UNCHANGED <<last_offset, callVars>>
       ELSE /\ pc' = "cutoff"
            /\ IF offset # last_offset
               THEN /\ last_offset' = offset
                    /\ SetPower(power, offset, FALSE)
               ELSE UNCHANGED <<last_offset, callVars>>
    /\ UNCHANGED <<workout, iter, d, power, stateVars, exitVars, now, offsetVars, deltaVars>>

\* `if let None = d.checked_sub(start.elapsed()) { break false }`
SchedCutoff ==
    /\ pc = "cutoff"
    /\ pc' = IF CheckedSubIsSome(d, now) THEN "sleep" ELSE "next"
    /\ UNCHANGED <<workout, iter, d, power, last_offset, stateVars, exitVars, now, callVars, offsetVars, deltaVars>>

\* Variant: the delta replaces the offset instead of adding to it.
add_offset_Set(delta) ==
    /\ offset' = delta
    /\ offsetCalls' = offsetCalls + 1
    /\ deltaSum' = deltaSum + delta
    /\ UNCHANGED <<workout, schedVars, running, exitVars, now, callVars, deltaVars>>

\* add_offset(state, delta): state.offset += delta under the lock.
add_offset(delta) ==
    /\ offset' = WrapI16(offset + delta)
    /\ offsetCalls' = offsetCalls + 1
    /\ deltaSum' = deltaSum + delta
    /\ UNCHANGED <<workout, schedVars, running, exitVars, now, callVars, deltaVars>>

AddOffset ==
    \E delta \in {-OffsetStep, OffsetStep} :
        /\ offsetCalls < MaxOffsetCalls
        /\ add_offset(delta)

\* exit(), first block: state.running = false under the lock.
ExitSetFlag ==
    /\ exitPc \in {"idle", "returned"}
    /\ exitCalls < MaxExitCalls
    /\ exitCalls' = exitCalls + 1
    /\ running' = FALSE
    /\ exitPc' = "take"
    /\ UNCHANGED <<workout, schedVars, offset, join_handle, now, callVars, offsetVars, deltaVars>>

\* exit(): mem::replace(&mut self.join_handle, None).
ExitTake ==
    /\ exitPc = "take"
    /\ join_handle' = FALSE
    /\ exitPc' = IF join_handle THEN "join" ELSE "returned"
    /\ UNCHANGED <<workout, schedVars, stateVars, exitCalls, now, callVars, offsetVars, deltaVars>>

\* Variant: exit() does not wait for the thread.
JoinReturns_NoWait == TRUE

\* jh.join(): returns once the scheduler thread has ended.
JoinReturns == pc = "done"

ExitJoin ==
    /\ exitPc = "join"
    /\ JoinReturns
    /\ exitPc' = "returned"
    /\ UNCHANGED <<workout, schedVars, stateVars, join_handle, exitCalls, now, callVars, offsetVars, deltaVars>>

\* The clock advances between any two steps, by any amount.
Tick ==
    /\ \E t \in TimePoints : t > now /\ now' = t
    /\ UNCHANGED <<workout, schedVars, stateVars, exitVars, callVars, offsetVars, deltaVars>>

Sched == SchedNext \/ SchedCall \/ SchedSleep \/ SchedPoll \/ SchedCutoff

Next ==
    \/ SchedNext
    \/ SchedCall
    \/ SchedSleep
    \/ SchedPoll
    \/ SchedCutoff
    \/ AddOffset
    \/ ExitSetFlag
    \/ ExitTake
    \/ ExitJoin
    \/ Tick

Spec == Init /\ [][Next]_vars

\* The scheduler thread and a thread that is inside exit() are scheduled
\* fairly; nothing obliges anyone to call exit() or add_offset, nor the
\* clock to run faster than the sleeps make it.
FairSpec == Spec /\ WF_vars(Sched) /\ WF_vars(ExitTake \/ ExitJoin)

\* --------------------------------------------------- delta engine, applied

\* No workout is running while the delta engine is exercised.
WorkoutIdle ==
    /\ workout = single_value(PowerT)
    /\ iter = <<>>
    /\ pc = "done"
    /\ d = 0
    /\ power = 0
    /\ last_offset = 0
    /\ running = FALSE
    /\ offset = 0
    /\ join_handle = FALSE
    /\ exitPc = "idle"
    /\ exitCalls = 0
    /\ now = 0
    /\ lastCall = NoCall
    /\ offsetCalls = 0
    /\ deltaSum = 0

\* A previous snapshot, or none, and a current snapshot, as a notification
\* handler holds them before it computes a delta.
InitDelta ==
    /\ WorkoutIdle
    /\ a \in {None} \cup {Some(r) : r \in CrankSnapshots}
    /\ b \in CrankSnapshots
    /\ out = NoOut

\* A call of checked_duration(a, b).
DeltaDuration ==
    /\ out.op = "none"
    /\ out' = [NoOut EXCEPT !.op = "duration", !.duration = checked_duration(a, b)]
    /\ UNCHANGED <<a, b, workoutVars>>

\* A call of checked_crank_rpm_and_new_count_rev_data(a, b).
DeltaCrank ==
    /\ out.op = "none"
    /\ out' \in CrankOutcomes(a, b)
    /\ UNCHANGED <<a, b, workoutVars>>

NextDelta ==
    \/ DeltaDuration
    \/ DeltaCrank

SpecDelta == InitDelta /\ [][NextDelta]_vars

\* ------------------------------------------------------------ the scheduler

RECURSIVE SumWaits(_)
SumWaits(items) == IF items = <<>> THEN 0 ELSE Head(items)[1] + SumWaits(Tail(items))

\* The cumulative cutoff of item k: the durations of items 1..k added up.
Cutoff(k) == SumWaits(SubSeq(All, 1, k))

\* Some exit() call on the handle has returned.
ExitReturned == exitPc = "returned" \/ exitCalls >= 2
\* The scheduler is in the poll loop of an item it has entered.
Holding == pc \in {"sleep", "poll", "cutoff"}
\* This step is a set_power invocation.  Every invocation changes the
\* record of the last one: an entry call is for a new item, a poll call
\* carries a new offset, and the two kinds differ in `entry`.
Called == lastCall' # lastCall
\* This step takes an item from the iterator.
TookItem == iter' # iter
\* The argument base power + offset, as the u16 the callback receives.
Sum16(base, off) == (base + off) % 65536

\* C1: once an exit() call has returned, the scheduler thread has ended and
\* no step invokes set_power any more, whatever add_offset calls follow.
C1_NoSetPowerAfterExit ==
    [][ExitReturned => (pc = "done" /\ pc' = "done" /\ ~Called)]_vars

\* exit() returned after the scheduler had set a power, and an add_offset made
\* afterwards is left unapplied.
C1_Witness ==
    /\ exitPc = "returned"
    /\ lastCall.step >= 1
    /\ offsetCalls = MaxOffsetCalls
    /\ offset # last_offset

\* C2: items are taken one at a time and in order, every set_power call is
\* made for the item being held with that item's power as base, calls never
\* go back to an earlier item, and an item is left only after its cumulative
\* cutoff has passed.
C2_WalksInOrder ==
    [][LET items == All
           t == Len(items) - Len(iter)
           t2 == Len(items) - Len(iter')
       IN  /\ t2 \in {t, t + 1}
           /\ (TookItem /\ t >= 1) => now > SumWaits(SubSeq(items, 1, t))
           /\ TookItem => /\ d' = SumWaits(SubSeq(items, 1, t2))
                          /\ power' = items[t2][2]
           /\ Called => /\ lastCall'.step = t
                        /\ lastCall'.step >= lastCall.step
                        /\ lastCall'.base = items[t][2] ]_vars

\* The scheduler has walked to the tail of a workout with a repeated step
\* and set the tail power.
C2_Witness ==
    /\ workout.tail # None
    /\ Len(All) >= 3
    /\ lastCall.step = Len(All)
    /\ lastCall.entry
    /\ pc = "cutoff"

\* C3: an item reached with elapsed > d is skipped without a set_power call
\* and the next item is taken; an item reached with elapsed <= d gets exactly
\* one set_power call on entry, before the first sleep and poll.
C3_SkipOrEnterOnce ==
    [][ /\ TookItem =>
            /\ ~Called
            /\ (now > Cutoff(Taken')) => pc' = "next"
            /\ (now <= Cutoff(Taken')) => pc' = "call"
        /\ (pc = "call" /\ pc' # "call") =>
            /\ pc' = "sleep"
            /\ Called
            /\ lastCall'.entry
            /\ lastCall'.step = Taken
        /\ (Called /\ lastCall'.entry) => (pc = "call" /\ lastCall'.step > lastCall.step)
        /\ Called => pc \in {"call", "poll"}
        /\ Holding => (Taken >= 1 /\ lastCall.step = Taken) ]_vars

\* The second item was reached after its cutoff and skipped, after the first
\* one had been entered with its one call.
C3_Witness ==
    /\ Taken = 2
    /\ pc = "next"
    /\ now > Cutoff(2)
    /\ lastCall.step = 1
    /\ lastCall.entry

\* C4 as stated: while the scheduler is running and holds an item of the
\* sequence, an offset that differs from the one last applied is applied to
\* that item before the item is left.
C4_Original ==
    [][(pc = "cutoff" /\ running /\ offset # last_offset
          /\ Taken <= Len(into_iter(workout.ct))) => pc' # "next"]_vars

\* C4, amended: every poll that finds running true and the offset different
\* from the one last applied invokes set_power once, with the power of the
\* item being held plus the new offset, records that offset and stays on the
\* item; a poll that finds no change makes no call.
C4_PollAppliesOffset ==
    [][(pc = "poll" /\ pc' # "poll") =>
         IF running /\ offset # last_offset
         THEN /\ Called
              /\ lastCall' = [step |-> Taken, base |-> All[Taken][2],
                              arg |-> Sum16(All[Taken][2], offset), entry |-> FALSE]
              /\ last_offset' = offset
              /\ Taken' = Taken
              /\ pc' = "cutoff"
         ELSE ~Called]_vars

\* Two offset changes were applied by polls of the item entered first, whose
\* cutoff has not passed.
C4_Witness ==
    /\ pc = "cutoff"
    /\ offsetCalls = 2
    /\ ~lastCall.entry
    /\ lastCall.step = 1
    /\ last_offset = 2 * OffsetStep
    /\ lastCall.arg = All[1][2] + 2 * OffsetStep
    /\ now <= d

C6_Original ==
    (workout.tail # None /\ lastCall.step = Len(All) /\ running) => pc # "done"

\* C7: once an exit() call has set running to false, the scheduler thread
\* ends and the call returns, whatever the scheduler was doing; a later
\* exit() call returns too, and never waits in join().
C7_ExitTerminates ==
    /\ (exitPc \in {"take", "join"}) ~> (pc = "done" /\ exitPc = "returned")
    /\ [](exitCalls >= 2 => exitPc # "join")

\* Two exit() calls have returned on a workout that was holding its tail with
\* an offset applied.
C7_Witness ==
    /\ exitCalls = 2
    /\ exitPc = "returned"
    /\ workout.tail # None
    /\ lastCall.step = Len(All)
    /\ ~lastCall.entry

\* The finite items of the workout all have the same duration.
Uniform ==
    \A j \in 1..Len(into_iter(workout.ct)) : All[j][1] = All[1][1]

\* The number of items that come from the cycle tree.
NFinite == Len(into_iter(workout.ct))

\* C8 as stated: with items of equal duration, the elapsed time at which an
\* item of the sequence is entered after the item before it was held is at
\* most one poll interval past its nominal start.
C8_Original ==
    [][(Uniform /\ TookItem /\ Taken >= 1 /\ lastCall.step = Taken
          /\ Taken' <= NFinite /\ pc' = "call") =>
           now <= Cutoff(Taken) + PollTicks]_vars

\* C8, amended: the elapsed time at which an item after the first is entered
\* lies after the cumulative cutoff of the item before it and not after its
\* own cumulative cutoff, whatever delays came before.
C8_StartWithinOwnWindow ==
    [][(TookItem /\ pc' = "call") =>
           /\ now <= Cutoff(Taken + 1)
           /\ Taken >= 1 => now > Cutoff(Taken)]_vars

\* A later item is entered more than one poll interval after its nominal
\* start, within its own window.
C8_Witness ==
    /\ pc = "call"
    /\ Taken >= 2
    /\ Taken <= NFinite
    /\ lastCall.step = Taken - 1
    /\ Uniform
    /\ now > Cutoff(Taken - 1) + PollTicks
    /\ now <= Cutoff(Taken)

\* ------------------------------------------------------------ the delta engine

\* The previous event time and count that a delta call starts from.
PrevTicks == IF a = None THEN 0 ELSE a[1].last_revolution_event_time
PrevCount == IF a = None THEN 0 ELSE a[1].revolution_count

\* C9: the elapsed time is current - previous when current >= previous and
\* 64 s + current - previous otherwise, previous being 0 without a previous
\* snapshot: the difference of the ticks modulo 65536, from 0 up to but not
\* including 64 s.
C9_ElapsedIsModularDifference ==
    out.op \in {"duration", "crank"} =>
        /\ (b.last_revolution_event_time >= PrevTicks) =>
               out.duration = b.last_revolution_event_time - PrevTicks
        /\ (b.last_revolution_event_time < PrevTicks) =>
               out.duration = 64 * 1024 + b.last_revolution_event_time - PrevTicks
        /\ out.duration = (b.last_revolution_event_time - PrevTicks) % 65536
        /\ out.duration >= 0
        /\ out.duration < 64 * 1024

\* The elapsed time across the wrap of the test: 62.9365234375 s to
\* 0.1982421875 s is 1292 ticks.
C9_Witness ==
    /\ out.op = "duration"
    /\ a = Some(RevolutionData(TestPrevCount, TestPrevTicks))
    /\ b = RevolutionData(TestCurCount, TestCurTicks)
    /\ out.duration = 1292

\* C10: the elapsed crank revolutions are current - previous when the count
\* increased and 0x10000 + current - previous otherwise, previous being 0
\* without a previous snapshot; for 16-bit counts the value lies in 1..65536,
\* no subtraction underflows, and a returned count is that value.
C10_CrankRevolutions ==
    (out.op = "crank" /\ out.computed) =>
        /\ ~out.underflow
        /\ (b.revolution_count > PrevCount) =>
               out.new_revolutions = b.revolution_count - PrevCount
        /\ (b.revolution_count <= PrevCount) =>
               out.new_revolutions = 65536 + b.revolution_count - PrevCount
        /\ out.new_revolutions = ((b.revolution_count - PrevCount - 1) % 65536) + 1
        /\ out.new_revolutions \in 1..65536
        /\ ~out.panicked
        /\ out.result # None => out.result[1].new = out.new_revolutions

\* The test's crank delta: 2 revolutions across the wrap of the event time,
\* returned with the rate 2 * 60 / (1292 / 1024).
C10_Witness ==
    /\ out.op = "crank"
    /\ a = Some(RevolutionData(TestPrevCount, TestPrevTicks))
    /\ b = RevolutionData(TestCurCount, TestCurTicks)
    /\ out.result = Some([rpm |-> Rpm(2, 1292), new |-> 2])

\* ------------------------------------------------- crank and wheel rates

\* The wheel ceiling, in revolutions per minute.
WheelCeiling == 1250

\* Values of the tests: tests::defaults_if_missing_measurement_entirely
\* (count 2 at 1.5 s) and tests::crank_does_not_report_impossible_numbers and
\* tests::wheel_does_not_report_impossible_numbers (count 4434 at 1.0 s, then
\* 4439 or 4455 at 2.0 s).
TestBaseCount == 2
TestBaseTicks == 1536
TestFastPrevTicks == 1024
TestFastCurTicks == 2048
TestFastCrankCount == 4439
TestFastWheelCount == 4455

\* Variant: the wheel delta without the check for a zero elapsed time.
RECURSIVE checked_wheel_rpm_and_new_count_rev_data(_, _)
checked_wheel_NoZeroCheck(prev, cur) ==
    LET duration == checked_duration(prev, cur)
        a_revolution_count == CountOrZero(prev)
        new_revolutions == cur.revolution_count - a_revolution_count
        rpm == Rpm(new_revolutions, duration)
        base == [op |-> "wheel", duration |-> duration, computed |-> FALSE,
                 new_revolutions |-> 0, reset |-> FALSE, diverged |-> FALSE,
                 result |-> None]
    IN  IF cur.revolution_count > a_revolution_count
        THEN [base EXCEPT !.computed = TRUE,
                          !.new_revolutions = new_revolutions,
                          !.result = IF RpmExceeds(rpm, WheelCeiling)
                                     THEN None
                                     ELSE Some([rpm |-> rpm, new |-> new_revolutions])]
        ELSE IF prev = None
        THEN [base EXCEPT !.reset = TRUE, !.diverged = TRUE]
        ELSE [checked_wheel_rpm_and_new_count_rev_data(None, cur) EXCEPT !.reset = TRUE]

\* checked_wheel_rpm_and_new_count_rev_data(a, b): the locals it computed and
\* the value returned.  With a non-increasing count the function calls itself
\* with no previous snapshot; when there is no previous snapshot already, that
\* call has the arguments of the call that makes it, so the recursion has no
\* end and the function never returns (`diverged`).
checked_wheel_rpm_and_new_count_rev_data(prev, cur) ==
    LET duration == checked_duration(prev, cur)
        a_revolution_count == CountOrZero(prev)
        new_revolutions == cur.revolution_count - a_revolution_count
        rpm == Rpm(new_revolutions, duration)
        base == [op |-> "wheel", duration |-> duration, computed |-> FALSE,
                 new_revolutions |-> 0, reset |-> FALSE, diverged |-> FALSE,
                 result |-> None]
    IN  IF duration = 0
        THEN base
        ELSE IF cur.revolution_count > a_revolution_count
        THEN [base EXCEPT !.computed = TRUE,
                          !.new_revolutions = new_revolutions,
                          !.result = IF RpmExceeds(rpm, WheelCeiling)
                                     THEN None
                                     ELSE Some([rpm |-> rpm, new |-> new_revolutions])]
        ELSE IF prev = None
        THEN [base EXCEPT !.reset = TRUE, !.diverged = TRUE]
        ELSE [checked_wheel_rpm_and_new_count_rev_data(None, cur) EXCEPT !.reset = TRUE]

\* The sampled counts: the low end of the range, the neighbourhood of each
\* ceiling (a count of `ceiling` revolutions in 60 s is a rate of exactly the
\* ceiling), and the values of the tests.
RateCounts ==
    (0..EdgeWidth)
    \cup ((CrankCeiling - EdgeWidth)..(CrankCeiling + EdgeWidth))
    \cup ((WheelCeiling - EdgeWidth)..(WheelCeiling + EdgeWidth))
    \cup {TestBaseCount, TestPrevCount, TestFastCrankCount, TestFastWheelCount}

\* The sampled event times, in ticks: the low end, 60 s, and the tests' times.
RateTicks ==
    (0..EdgeWidth)
    \cup {SecondsPerMinute * ClockHz, TestBaseTicks, TestFastPrevTicks, TestFastCurTicks}

RateSnapshots == { RevolutionData(c, t) : c \in RateCounts, t \in RateTicks }

\* A previous snapshot of one kind, or none, and a current snapshot.
InitRate ==
    /\ WorkoutIdle
    /\ a \in {None} \cup {Some(r) : r \in RateSnapshots}
    /\ b \in RateSnapshots
    /\ out = NoOut

\* A call of checked_crank_rpm_and_new_count_rev_data(a, b).
RateCrank ==
    /\ out.op = "none"
    /\ out' \in CrankOutcomes(a, b)
    /\ UNCHANGED <<a, b, workoutVars>>

\* A call of checked_wheel_rpm_and_new_count_rev_data(a, b).
RateWheel ==
    /\ out.op = "none"
    /\ out' = checked_wheel_rpm_and_new_count_rev_data(a, b)
    /\ UNCHANGED <<a, b, workoutVars>>

NextRate ==
    \/ RateCrank
    \/ RateWheel

SpecRate == InitRate /\ [][NextRate]_vars

\* The rate revs * 60 / (ticks / 1024) is above the ceiling.  From 32768
\* revolutions on, the rate is above 30720 RPM whatever the elapsed time
\* below 64 s is; below that the products fit the integers.
RateOver(revs, ticks, ceiling) ==
    IF revs >= 32768 THEN TRUE ELSE revs * 60 * 1024 > ceiling * ticks

\* C11: a crank or wheel delta whose elapsed time is zero (the event times
\* are equal modulo 64 s, the previous one being 0 without a previous
\* snapshot) returns None without computing a count or a rate, whatever the
\* counts are.
C11_NoneOnZeroElapsed ==
    (out.op \in {"crank", "wheel"}
       /\ (b.last_revolution_event_time - PrevTicks) % 65536 = 0) =>
        /\ out.result = None
        /\ out.duration = 0
        /\ ~out.computed
        /\ out.op = "wheel" => (~out.diverged /\ ~out.reset)

\* tests::none_if_not_new: the identical crank snapshot as previous and
\* current gives None.
C11_Witness ==
    /\ out.op = "crank"
    /\ a = Some(RevolutionData(TestBaseCount, TestBaseTicks))
    /\ b = RevolutionData(TestBaseCount, TestBaseTicks)
    /\ out.result = None

\* C12: when a delta computes a rate (the elapsed time is not zero), it is
\* rejected exactly when new_count * 60 / elapsed is strictly above 271 RPM
\* for the crank and 1250 RPM for the wheel; a rate at or below the ceiling
\* is returned with the count as Some((rate, new_count)).
C12_CeilingIsStrict ==
    (out.op \in {"crank", "wheel"} /\ out.computed) =>
        LET ceiling == IF out.op = "crank" THEN 271 ELSE 1250
            n == out.new_revolutions
            t == out.duration
        IN  /\ t > 0
            /\ RateOver(n, t, ceiling) => out.result = None
            /\ ~RateOver(n, t, ceiling) =>
                   out.result = Some([rpm |-> [revs |-> n, ticks |-> t], new |-> n])

\* A wheel delta of exactly 1250 RPM (1250 revolutions in 60 s) is returned.
C12_Witness ==
    /\ out.op = "wheel"
    /\ a = None
    /\ b = RevolutionData(1250, 60 * 1024)
    /\ out.result = Some([rpm |-> [revs |-> 1250, ticks |-> 61440], new |-> 1250])

\* C13 as stated, for a non-zero elapsed time since the previous snapshot: a
\* wheel delta whose count did not increase returns what the delta of the
\* same current snapshot with no previous snapshot is said to be, the count
\* and the event time of the current snapshot taken from a baseline of zero:
\* None at time 0, else the rate of current.count revolutions in current.time
\* checked against the ceiling.
C13_Original ==
    (out.op = "wheel" /\ a # None /\ out.duration # 0
       /\ b.revolution_count <= PrevCount) =>
        /\ ~out.diverged
        /\ b.last_revolution_event_time = 0 => out.result = None
        /\ b.last_revolution_event_time > 0 =>
               /\ out.new_revolutions = b.revolution_count
               /\ out.duration = b.last_revolution_event_time
               /\ out.result =
                      IF RateOver(b.revolution_count, b.last_revolution_event_time, 1250)
                      THEN None
                      ELSE Some([rpm |-> [revs |-> b.revolution_count,
                                          ticks |-> b.last_revolution_event_time],
                                 new |-> b.revolution_count])

\* ------------------------------------------------------- CSC measurements

CscMeasurement(w, c) == [wheel |-> w, crank |-> c]

\* a.map(|x| x.wheel.as_ref()) and a.map(|x| x.crank.as_ref())
MapWheel(o) == IF o = None THEN None ELSE Some(o[1].wheel)
MapCrank(o) == IF o = None THEN None ELSE Some(o[1].crank)

\* Variant: no previous measurement is passed on as no value at all.
sequence_option_option_Strict(o) ==
    IF o = None THEN None
    ELSE IF o[1] = None THEN None ELSE Some(Some(o[1][1]))

\* Variant: a previous measurement without the sub-reading is passed on as
\* no previous snapshot.
sequence_option_option_Defaulting(o) ==
    IF o = None THEN Some(None)
    ELSE IF o[1] = None THEN Some(None) ELSE Some(Some(o[1][1]))

\* sequence_option_option(a)
sequence_option_option(o) ==
    IF o = None THEN Some(None)
    ELSE IF o[1] = None THEN None ELSE Some(Some(o[1][1]))

\* The match of lift_a2_option: both arguments are Some.
BothSome(x, y) == x # None /\ y # None

\* What a measurement-level delta leaves: whether the snapshot-level function
\* was called, the previous snapshot it was given, what it computed, and the
\* value returned after and_then(|x| x).
MeasureOut(kind, called, prev, inner) ==
    [op |-> kind, called |-> called, prev |-> prev, inner |-> inner,
     result |-> IF called THEN inner.result ELSE None]

\* checked_crank_rpm_and_new_count(a, b)
checked_crank_rpm_and_new_count(ma, mb) ==
    LET a1 == sequence_option_option(MapCrank(ma))
        b1 == mb.crank
    IN  IF BothSome(a1, b1)
        THEN { MeasureOut("crank", TRUE, a1[1], o) : o \in CrankOutcomes(a1[1], b1[1]) }
        ELSE { MeasureOut("crank", FALSE, None, NoOut) }

\* checked_wheel_rpm_and_new_count(a, b)
checked_wheel_rpm_and_new_count(ma, mb) ==
    LET a1 == sequence_option_option(MapWheel(ma))
        b1 == mb.wheel
    IN  IF BothSome(a1, b1)
        THEN { MeasureOut("wheel", TRUE, a1[1],
                          checked_wheel_rpm_and_new_count_rev_data(a1[1], b1[1])) }
        ELSE { MeasureOut("wheel", FALSE, None, NoOut) }

\* The sampled sub-readings: low counts and event times, and the values of
\* tests::defaults_if_missing_measurement_entirely.
MeasureSnapshots ==
    { RevolutionData(c, t) :
        c \in (0..EdgeWidth) \cup {TestBaseCount},
        t \in (0..EdgeWidth) \cup {TestBaseTicks} }

OptSnapshots == {None} \cup { Some(r) : r \in MeasureSnapshots }

Measurements == { CscMeasurement(w, c) : w \in OptSnapshots, c \in OptSnapshots }

\* A previous measurement, or none, and a current measurement, as the
\* notification handlers of main.rs hold them.
InitMeasure ==
    /\ WorkoutIdle
    /\ a \in {None} \cup { Some(m) : m \in Measurements }
    /\ b \in Measurements
    /\ out = NoOut

\* A call of checked_crank_rpm_and_new_count(a, b).
MeasureCrank ==
    /\ out.op = "none"
    /\ out' \in checked_crank_rpm_and_new_count(a, b)
    /\ UNCHANGED <<a, b, workoutVars>>

\* A call of checked_wheel_rpm_and_new_count(a, b).
MeasureWheel ==
    /\ out.op = "none"
    /\ out' \in checked_wheel_rpm_and_new_count(a, b)
    /\ UNCHANGED <<a, b, workoutVars>>

NextMeasure ==
    \/ MeasureCrank
    \/ MeasureWheel

SpecMeasure == InitMeasure /\ [][NextMeasure]_vars

\* The sub-reading of the kind the last call asked for, in the current and in
\* the previous measurement.
CurSub == IF out.op = "crank" THEN b.crank ELSE b.wheel
PrevSub == IF out.op = "crank" THEN a[1].crank ELSE a[1].wheel

\* C14: with no previous measurement at all, the baseline is count 0 at time
\* 0: for a current sub-reading with count > 0 at time > 0 whose rate
\* count * 60 / time is not above the kind's ceiling, the result is
\* Some((count * 60 / time, count)).
C14_BaselineDefault ==
    (out.op \in {"crank", "wheel"} /\ a = None /\ CurSub # None) =>
        LET cur == CurSub[1]
            ceiling == IF out.op = "crank" THEN 271 ELSE 1250
        IN  /\ out.called
            /\ out.prev = None
            /\ (cur.revolution_count > 0 /\ cur.last_revolution_event_time > 0
                  /\ ~RateOver(cur.revolution_count, cur.last_revolution_event_time,
                               ceiling)) =>
                   out.result =
                       Some([rpm |-> [revs |-> cur.revolution_count,
                                      ticks |-> cur.last_revolution_event_time],
                             new |-> cur.revolution_count])

\* tests::wheel_defaults_if_missing_measurement_entirely: count 2 at 1.5 s
\* with no previous measurement gives (80.0, 2).
C14_Witness ==
    /\ out.op = "wheel"
    /\ a = None
    /\ b.wheel = Some(RevolutionData(2, 1536))
    /\ out.result # None
    /\ out.result[1].new = 2
    /\ out.result[1].rpm.revs * 60 * 1024 = 80 * out.result[1].rpm.ticks

\* C15: when the previous measurement is present but lacks the sub-reading
\* of the requested kind, or the current measurement lacks it, the result is
\* None and no delta is computed, whatever the other fields hold; a delta is
\* computed from the zero baseline only when there is no previous measurement
\* at all, and otherwise from the previous measurement's sub-reading.
C15_MissingSubReading ==
    (out.op \in {"crank", "wheel"}) =>
        /\ ((a # None /\ PrevSub = None) \/ CurSub = None) =>
               (out.result = None /\ ~out.called)
        /\ (out.called /\ out.prev = None) => a = None
        /\ (out.called /\ a # None) => out.prev = PrevSub

\* tests::does_not_default_if_crank_data_is_not_present: the previous
\* measurement has no crank data, the current one has, and the result is None
\* although the same current measurement with no previous gives a value.
C15_Witness ==
    /\ out.op = "crank"
    /\ a = Some(CscMeasurement(None, None))
    /\ b = CscMeasurement(None, Some(RevolutionData(2, 1536)))
    /\ out.result = None
    /\ ~out.called

\* ------------------------------------------------------ flattening a tree

\* Largest repeat count and largest number of children of a node of the
\* sampled trees.
TreeCount == 2
TreeChildren == 2

\* Two leaves that differ, as in the tests.
TreeLeaves == { Leaf(0), Leaf(1) }

\* The sequences of at most k leaves.
LeafSeqs(k) == UNION { [1..m -> TreeLeaves] : m \in 0..k }

\* Nodes of leaves; nodes with one such node among their children, anywhere
\* between leaves; and nodes that repeat a node that repeats a node of leaves.
TreeInner == { Node(n, ws) : n \in 0..TreeCount, ws \in LeafSeqs(TreeChildren) }
TreeOuter ==
    UNION { { Node(n, pre \o <<t>> \o post) :
                n \in 0..TreeCount, t \in TreeInner,
                post \in LeafSeqs(TreeChildren - 1 - Len(pre)) } :
            pre \in LeafSeqs(TreeChildren - 1) }
TreeTop ==
    { Node(n, <<Node(m, <<t>>)>>) :
        n \in 0..TreeCount, m \in 0..TreeCount, t \in TreeInner }
Trees == TreeLeaves \cup TreeInner \cup TreeOuter \cup TreeTop

\* A tree, before it is consumed.
InitTree ==
    /\ WorkoutIdle
    /\ a = None
    /\ b \in Trees
    /\ out = NoOut

\* b.into_iter().collect()
TreeIntoIter ==
    /\ out.op = "none"
    /\ out' = [op |-> "into_iter", result |-> into_iter(b)]
    /\ UNCHANGED <<a, b, workoutVars>>

NextTree == TreeIntoIter

SpecTree == InitTree /\ [][NextTree]_vars

RECURSIVE ConcatAll(_)
\* The concatenation of a sequence of sequences, in order.
ConcatAll(seqs) == IF seqs = <<>> THEN <<>> ELSE Head(seqs) \o ConcatAll(Tail(seqs))

RECURSIVE SumLens(_)
\* The sum of the lengths of a sequence of sequences.
SumLens(seqs) == IF seqs = <<>> THEN 0 ELSE Len(Head(seqs)) + SumLens(Tail(seqs))

RECURSIVE Flat(_)
\* The flattening the claim describes: a leaf is its value; a node is the
\* concatenation of its flattened children, that block laid out n times.
Flat(t) ==
    IF t[1] = "Leaf"
    THEN <<t[2]>>
    ELSE LET block == ConcatAll([i \in 1..Len(t[3]) |-> Flat(t[3][i])])
         IN  [i \in 1..(t[2] * Len(block)) |-> block[((i - 1) % Len(block)) + 1]]

FlagEdge == 1

\* data[i], the bytes of a notification being indexed from 0.
At(data, i) == data[i + 1]

\* data[0] & mask == mask, for a mask of one bit.
HasBit(x, mask) == (x \div mask) % 2 = 1

\* Variant: the bytes are read most significant first.
U16FromLe_BigEndian(b0, b1) == 256 * b0 + b1

\* u16::from_le_bytes([b0, b1])
U16FromLe(b0, b1) == b0 + 256 * b1

\* u32::from_le_bytes([b0, b1, b2, b3])
U32FromLe(b0, b1, b2, b3) == b0 + 256 * b1 + 65536 * b2 + 16777216 * b3

\* `n as f64 / den`: n is below 2^16 and den a power of two, so the quotient
\* is exact; it is kept as the fraction.
DivF64(n, den) == [num |-> n, den |-> den]

\* crank_index = wheel_index + if has_wheel_data { 6 } else { 0 }
CscCrankIndex(has_wheel_data) == 1 + (IF has_wheel_data THEN 6 ELSE 0)

\* parse_csc_measurement(data)
parse_csc_measurement(data) ==
    LET has_wheel_data == HasBit(At(data, 0), 1)
        has_crank_data == HasBit(At(data, 0), 2)
        wheel_index == 1
        crank_index == CscCrankIndex(has_wheel_data)
    IN  CscMeasurement(
            IF has_wheel_data
            THEN Some(RevolutionData(
                     U32FromLe(At(data, wheel_index), At(data, wheel_index + 1),
                               At(data, wheel_index + 2), At(data, wheel_index + 3)),
                     DivF64(U16FromLe(At(data, wheel_index + 4),
                                      At(data, wheel_index + 4 + 1)), 1024)))
            ELSE None,
            IF has_crank_data
            THEN Some(RevolutionData(
                     U32FromLe(At(data, crank_index), At(data, crank_index + 1), 0, 0),
                     DivF64(U16FromLe(At(data, crank_index + 2),
                                      At(data, crank_index + 3)), 1024)))
            ELSE None)

\* Sampled six-byte and four-byte blocks: the bytes of the tests, all bytes
\* distinct, and the two ends of the range (the wheel count kept below 2^31).
WheelBlocks ==
    { <<1, 2, 3, 4, 1, 2>>, <<17, 34, 51, 68, 85, 102>>,
      <<255, 255, 255, 127, 255, 255>>, <<0, 0, 0, 0, 0, 0>> }
CrankBlocks ==
    { <<1, 2, 1, 2>>, <<119, 136, 153, 170>>, <<255, 255, 255, 255>>, <<0, 0, 0, 0>> }

\* The sampled values of the flag bits no decoder reads.
OtherBits(n) == (0..FlagEdge) \cup ((n - 1 - FlagEdge)..(n - 1))

\* Flags bytes of CSC notifications: bit0 and bit1, and the six bits above.
CscFlags == { f + 4 * h : f \in 0..3, h \in OtherBits(64) }

\* The number of bytes the flags announce after the flags byte.
CscNeeded(flags) ==
    (IF HasBit(flags, 1) THEN 6 ELSE 0) + (IF HasBit(flags, 2) THEN 4 ELSE 0)

\* Valid CSC notifications: a flags byte followed by at least the bytes it
\* announces.
CscPayloads ==
    { <<f>> \o SubSeq(w \o c, 1, n) :
        f \in CscFlags, w \in WheelBlocks, c \in CrankBlocks, n \in {0, 4, 6, 10} }
CscData == { data \in CscPayloads : Len(data) >= 1 + CscNeeded(data[1]) }

\* A notification, as the handler receives it.
InitParseCsc ==
    /\ WorkoutIdle
    /\ a = None
    /\ b \in CscData
    /\ out = NoOut

\* A call of parse_csc_measurement(&b).
ParseCsc ==
    /\ out.op = "none"
    /\ out' = [op |-> "parse_csc", result |-> parse_csc_measurement(b)]
    /\ UNCHANGED <<a, b, workoutVars>>

NextParseCsc == ParseCsc

SpecParseCsc == InitParseCsc /\ [][NextParseCsc]_vars

\* C17: the wheel snapshot is present iff bit0 of byte 0 is set and the
\* crank snapshot iff bit1 is set; the wheel count is the little-endian u32
\* of bytes 1..5 and the wheel time the little-endian u16 of bytes 5..7 over
\* 1024; the crank block starts at byte 7 with wheel data and at byte 1
\* without, a little-endian u16 count and a little-endian u16 time over
\* 1024; no other bit of byte 0 has any effect.
C17_CscLayout ==
    out.op = "parse_csc" =>
        LET bit0 == b[1] % 2 = 1
            bit1 == (b[1] % 4) \div 2 = 1
            k == IF bit0 THEN 7 ELSE 1
        IN  /\ (out.result.wheel # None) <=> bit0
            /\ (out.result.crank # None) <=> bit1
            /\ bit0 =>
                   /\ out.result.wheel[1].revolution_count =
                          b[2] + 256 * (b[3] + 256 * (b[4] + 256 * b[5]))
                   /\ out.result.wheel[1].last_revolution_event_time =
                          [num |-> b[6] + 256 * b[7], den |-> 1024]
            /\ bit1 =>
                   /\ out.result.crank[1].revolution_count =
                          b[k + 1] + 256 * b[k + 2]
                   /\ out.result.crank[1].last_revolution_event_time =
                          [num |-> b[k + 3] + 256 * b[k + 4], den |-> 1024]

\* A crank-only notification with other flag bits set: the crank block is
\* read from byte 1.
C17_Witness ==
    /\ out.op = "parse_csc"
    /\ b = <<254, 17, 34, 51, 68>>
    /\ out.result =
           CscMeasurement(None, Some(RevolutionData(17 + 256 * 34,
                                                    [num |-> 51 + 256 * 68, den |-> 1024])))

\* -------------------------------------------- cycling power measurement

CyclingPowerMeasurement(p, bal, tq, w, c) ==
    [instantaneous_power |-> p, pedal_power_balance_percent |-> bal,
     accumulated_torque |-> tq, wheel_revolution_data |-> w,
     crank_revolution_data |-> c]

\* i16::from_le_bytes([b0, b1])
I16FromLe(b0, b1) == AsI16(U16FromLe(b0, b1))

\* Variant: the torque is read where the pedal balance byte would be.
CpmTorqueIndex_Fixed(has_pedal_power_balance) == 4

\* accumulated_torque_index
CpmTorqueIndex(has_pedal_power_balance) ==
    4 + (IF has_pedal_power_balance THEN 1 ELSE 0)

\* parse_cycling_power_measurement(data)
parse_cycling_power_measurement(data) ==
    LET has_pedal_power_balance == HasBit(At(data, 0), 1)
        has_accumulated_torque == HasBit(At(data, 0), 4)
        has_wheel_data == HasBit(At(data, 0), 16)
        has_crank_data == HasBit(At(data, 0), 32)
        power_index == 2
        pedal_power_balance_index == 4
        accumulated_torque_index == CpmTorqueIndex(has_pedal_power_balance)
        wheel_data_index ==
            accumulated_torque_index + (IF has_accumulated_torque THEN 2 ELSE 0)
        crank_data_index == wheel_data_index + (IF has_wheel_data THEN 6 ELSE 0)
    IN  CyclingPowerMeasurement(
            I16FromLe(At(data, power_index), At(data, power_index + 1)),
            IF has_pedal_power_balance
            THEN Some(DivF64(At(data, pedal_power_balance_index), 2))
            ELSE None,
            IF has_accumulated_torque
            THEN Some(<<IF HasBit(At(data, 0), 8) THEN "Crank" ELSE "Wheel",
                        DivF64(U16FromLe(At(data, accumulated_torque_index),
                                         At(data, accumulated_torque_index + 1)), 32)>>)
            ELSE None,
            IF has_wheel_data
            THEN Some(RevolutionData(
                     U32FromLe(At(data, wheel_data_index), At(data, wheel_data_index + 1),
                               At(data, wheel_data_index + 2), At(data, wheel_data_index + 3)),
                     DivF64(U16FromLe(At(data, wheel_data_index + 4),
                                      At(data, wheel_data_index + 4 + 1)), 2048)))
            ELSE None,
            IF has_crank_data
            THEN Some(RevolutionData(
                     U32FromLe(At(data, crank_data_index), At(data, crank_data_index + 1),
                               0, 0),
                     DivF64(U16FromLe(At(data, crank_data_index + 2),
                                      At(data, crank_data_index + 2 + 1)), 1024)))
            ELSE None)

\* Flags bytes of power notifications: the five bits the decoder reads, and
\* bit1, bit6 and bit7, which it does not.
CpmFlags ==
    { f0 + 2 * (h % 2) + 4 * f2 + 8 * f3 + 16 * f4 + 32 * f5 + 64 * (h \div 2) :
        f0 \in 0..1, f2 \in 0..1, f3 \in 0..1, f4 \in 0..1, f5 \in 0..1,
        h \in OtherBits(8) }

\* The second flags byte and the two power bytes: the bytes of the tests
\* (power 0x0102), power -1, and power -32768.
CpmHeads == { <<0, 2, 1>>, <<255, 255, 255>>, <<3, 0, 128>> }

\* Bytes after the power: those of the tests, all bytes distinct, and the
\* high end of the range (every byte that can be the top byte of the wheel
\* count kept below 128, the count below 2^31).
CpmBodies ==
    { <<99, 1, 2, 1, 2, 3, 4, 1, 2, 1, 2, 1, 2>>,
      <<201, 17, 34, 51, 68, 85, 102, 119, 136, 153, 170, 187, 204>>,
      <<255, 255, 127, 127, 127, 127, 127, 255, 255, 255, 255, 255, 255>> }

\* The number of bytes the flags announce after the power.
CpmNeeded(flags) ==
    (IF HasBit(flags, 1) THEN 1 ELSE 0) + (IF HasBit(flags, 4) THEN 2 ELSE 0)
    + (IF HasBit(flags, 16) THEN 6 ELSE 0) + (IF HasBit(flags, 32) THEN 4 ELSE 0)

\* Valid power notifications: exactly the bytes the flags announce, or more.
CpmData ==
    { <<f>> \o h \o SubSeq(body, 1, n) :
        f \in CpmFlags, h \in CpmHeads, body \in CpmBodies, n \in {0, 13} }
    \cup { <<f>> \o h \o SubSeq(body, 1, CpmNeeded(f)) :
        f \in CpmFlags, h \in CpmHeads, body \in CpmBodies }

\* A notification, as the handler receives it.
InitParseCpm ==
    /\ WorkoutIdle
    /\ a = None
    /\ b \in { data \in CpmData : Len(data) >= 4 + CpmNeeded(data[1]) }
    /\ out = NoOut

\* A call of parse_cycling_power_measurement(&b).
ParseCpm ==
    /\ out.op = "none"
    /\ out' = [op |-> "parse_cpm", result |-> parse_cycling_power_measurement(b)]
    /\ UNCHANGED <<a, b, workoutVars>>

NextParseCpm == ParseCpm

SpecParseCpm == InitParseCpm /\ [][NextParseCpm]_vars

\* Bit k of the flags byte of the notification, as 0 or 1.
FlagBit(k) == (b[1] \div (2 ^ k)) % 2

\* C18: the power is the signed little-endian i16 of bytes 2..4; from byte 4
\* on follow, each only if its bit is set and each right after the present
\* ones before it: the pedal balance (bit0, one byte over 2), the
\* accumulated torque (bit2, little-endian u16 over 32, source Crank iff
\* bit3), the wheel block (bit4, little-endian u32 count and u16 time over
\* 2048) and the crank block (bit5, little-endian u16 count and u16 time over
\* 1024); with bit2 clear there is no accumulated torque whatever bit3 is.
C18_CpmLayout ==
    out.op = "parse_cpm" =>
        LET r == out.result
            u == b[3] + 256 * b[4]
            o2 == 4 + FlagBit(0)
            o3 == o2 + 2 * FlagBit(2)
            o4 == o3 + 6 * FlagBit(4)
        IN  /\ r.instantaneous_power = IF u >= 32768 THEN u - 65536 ELSE u
            /\ (r.pedal_power_balance_percent # None) <=> FlagBit(0) = 1
            /\ FlagBit(0) = 1 =>
                   r.pedal_power_balance_percent = Some([num |-> b[5], den |-> 2])
            /\ (r.accumulated_torque # None) <=> FlagBit(2) = 1
            /\ FlagBit(2) = 1 =>
                   r.accumulated_torque =
                       Some(<<IF FlagBit(3) = 1 THEN "Crank" ELSE "Wheel",
                              [num |-> b[o2 + 1] + 256 * b[o2 + 2], den |-> 32]>>)
            /\ (r.wheel_revolution_data # None) <=> FlagBit(4) = 1
            /\ FlagBit(4) = 1 =>
                   r.wheel_revolution_data =
                       Some(RevolutionData(
                           b[o3 + 1] + 256 * (b[o3 + 2] + 256 * (b[o3 + 3] + 256 * b[o3 + 4])),
                           [num |-> b[o3 + 5] + 256 * b[o3 + 6], den |-> 2048]))
            /\ (r.crank_revolution_data # None) <=> FlagBit(5) = 1
            /\ FlagBit(5) = 1 =>
                   r.crank_revolution_data =
                       Some(RevolutionData(
                           b[o4 + 1] + 256 * b[o4 + 2],
                           [num |-> b[o4 + 3] + 256 * b[o4 + 4], den |-> 1024]))

\* A notification with balance, crank-sourced torque and crank block but no
\* wheel block, and a negative power: the crank block follows the torque.
C18_Witness ==
    /\ out.op = "parse_cpm"
    /\ b = <<45, 255, 255, 255, 201, 17, 34, 51, 68, 85, 102>>
    /\ out.result =
           CyclingPowerMeasurement(
               -1, Some([num |-> 201, den |-> 2]),
               Some(<<"Crank", [num |-> 17 + 256 * 34, den |-> 32]>>),
               None,
               Some(RevolutionData(51 + 256 * 68, [num |-> 85 + 256 * 102, den |-> 1024])))

\* ---------------------------------------------------------------- ramp_test

\* The largest sampled warm-up power, in steps of OffsetStep watts.
RampMaxWarmup == 60

\* Duration::from_secs(300), Duration::from_secs(30), `for _ in 0..49`,
\* `let mut power = 100` and `power = power + 15`.
RampWarmupSecs == 300
RampStepSecs == 30
RampSteps == 49
RampStartPower == 100
RampIncrement == 15

RECURSIVE RampLoop(_, _, _, _)
\* The for loop of ramp_test with k rounds to go: each round pushes a leaf
\* of 30 s at warmup_power and adds 15 to the local `power`.
RampLoop(k, v, power_local, warmup_power) ==
    IF k = 0
    THEN [v |-> v, power |-> power_local]
    ELSE RampLoop(k - 1,
                  Append(v, Leaf(<<RampStepSecs * TicksPerSec, warmup_power>>)),
                  power_local + RampIncrement,
                  warmup_power)

\* ramp_test(warmup_power)
ramp_test(warmup_power) ==
    LET v0 == <<Leaf(<<RampWarmupSecs * TicksPerSec, warmup_power>>)>>
        loop == RampLoop(RampSteps, v0, RampStartPower, warmup_power)
    IN  [ct |-> Node(1, loop.v), tail |-> None]

\* The sampled warm-up powers.
RampPowers == { OffsetStep * k : k \in 0..RampMaxWarmup }

\* A warm-up power, before ramp_test is called with it.
InitRamp ==
    /\ WorkoutIdle
    /\ a = None
    /\ b \in RampPowers
    /\ out = NoOut

\* ramp_test(b), and the items the scheduler would walk.
RampBuild ==
    /\ out.op = "none"
    /\ out' = [op |-> "ramp_test", result |-> ramp_test(b),
               items |-> Chain(ramp_test(b).ct, ramp_test(b).tail)]
    /\ UNCHANGED <<a, b, workoutVars>>

NextRamp == RampBuild

SpecRamp == InitRamp /\ [][NextRamp]_vars

\* C19 as stated: ramp_test(warmup_power) has no tail and 50 items, the
\* first warmup_power for 300 s, the other 49 of 30 s each, each of them 15 W
\* above the item before it.
C19_Original ==
    out.op = "ramp_test" =>
        /\ out.result.tail = None
        /\ Len(out.items) = 50
        /\ out.items[1] = <<300 * TicksPerSec, b>>
        /\ \A k \in 2..50 :
               /\ out.items[k][1] = 30 * TicksPerSec
               /\ out.items[k][2] = out.items[k - 1][2] + 15

\* C20 as stated: when a workout without a tail has run to the end of its
\* sequence, the power of the last set_power call is the default 0.
C20_Original ==
    (workout.tail = None /\ pc = "done" /\ running /\ lastCall # NoCall) =>
        lastCall.base = 0

\* ------------------------------------------------- the set_power argument

\* How many button holds in one direction the sampled offsets reach.
OffsetReach == 4

\* The base power main.rs gives its first single_value workout.
PowerLow == 100

\* Base powers: low values, the values of main.rs, the two sides of the
\* i16 range, and the top of the u16 range.
PowerSamples ==
    (0..EdgeWidth) \cup {OffsetStep, PowerLow, PowerA, PowerB}
    \cup ((32768 - 1 - EdgeWidth)..(32768 + EdgeWidth))
    \cup ((65536 - 1 - EdgeWidth)..(65536 - 1))

\* Offsets that button holds reach: multiples of the step, and a run of
\* holds that takes the offset below -100.
OffsetSamples ==
    { OffsetStep * k : k \in (-OffsetReach)..OffsetReach }
    \cup { -(PowerLow + OffsetStep * k) : k \in 1..OffsetReach }

\* set_power(((power as i16) + off) as u16): the i16 addition panics on
\* overflow in a build with overflow checks and wraps in one without.
SetPowerOutcomes(p, off) ==
    LET sum == AsI16(p) + off
        wrapped == [op |-> "set_power", arg |-> PowerArg(p, off), panicked |-> FALSE]
    IN  IF sum < -32768 \/ sum > 32767
        THEN {wrapped, [op |-> "set_power", arg |-> 0, panicked |-> TRUE]}
        ELSE {wrapped}

\* A step's base power and the offset the scheduler applies to it.
InitPower ==
    /\ WorkoutIdle
    /\ a \in OffsetSamples
    /\ b \in PowerSamples
    /\ out = NoOut

\* The call the scheduler makes on entry to a step or from a poll.
PowerCall ==
    /\ out.op = "none"
    /\ out' \in SetPowerOutcomes(b, a)
    /\ UNCHANGED <<a, b, workoutVars>>

NextPower == PowerCall

SpecPower == InitPower /\ [][NextPower]_vars

\* C21 as stated: the value passed to set_power is the base power plus the
\* offset as an integer, never a wrapped value, and the call is made.
C21_Original ==
    out.op = "set_power" => (~out.panicked /\ out.arg = b + a)

\* ------------------------------------------- the live speed and cadence loops

\* How many notifications a loop handles.
MaxNotifications == 3

\* The sub-readings the sensors send: counts that stay, grow by one and fall
\* back, a count too far ahead of the previous one for the ceiling, and event
\* times a second apart.
PipeFastCount == 40
PipeCounts == (0..3) \cup {PipeFastCount}
PipeTicks == { k * ClockHz : k \in 0..3 }
PipeSnapshots == { RevolutionData(c, t) : c \in PipeCounts, t \in PipeTicks }
PipeOptSnapshots == {None} \cup { Some(r) : r \in PipeSnapshots }

\* parse_csc_measurement(&n.value): a measurement with the same sub-reading
\* for the wheel and the crank, or with one of the two only.
PipeMeasurements ==
    { CscMeasurement(s, s) : s \in PipeOptSnapshots }
    \cup { CscMeasurement(Some(RevolutionData(1, ClockHz)), None),
           CscMeasurement(None, Some(RevolutionData(1, ClockHz))) }

\* What the display is given: the wheel rate (which update_speed scales by
\* the constant WHEEL_CIRCUMFERENCE / 60), and `rpm as u8` for the cadence,
\* which drops the fraction and saturates at 255.
Shown(kind, rpm) ==
    IF kind = "speed" THEN rpm
    ELSE Min((rpm.revs * SecondsPerMinute * ClockHz) \div rpm.ticks, 255)

\* Variant: the count of the last delta replaces the cumulative count.
AddCount_Replace(count, new) == new

\* wheel_count + new_wheel_count, crank_count + new_crank_count
AddCount(count, new) == count + new

\* Variant: a measurement that gave no delta is not stored.
StorePrev_OnlyAccepted(prev, m, r) == IF r = None THEN prev ELSE Some(m)

\* o_last_speed_measure = Some(csc_measure), after the if let
StorePrev(prev, m, r) == Some(m)

\* The delta call of a loop never returns: the wheel recursion has no end,
\* or the crank subtraction panicked.
Stops(r) ==
    r.called /\ (IF r.op = "wheel" THEN r.inner.diverged ELSE r.inner.panicked)

\* The sub-reading a loop looks at.
PipeSub(kind, m) == IF kind = "speed" THEN m.wheel ELSE m.crank

\* A loop before its first notification: no previous measurement, a count of
\* 0, and nothing displayed yet.  `out` holds which loop it is, the number of
\* notifications handled, the last measurement and its delta, and whether
\* the counts received so far were present and strictly increasing.
InitPipe ==
    /\ WorkoutIdle
    /\ a = None
    /\ b = [count |-> 0, rate |-> None, updates |-> 0]
    /\ out \in { [op |-> k, n |-> 0, last |-> None, delta |-> None,
                  stopped |-> FALSE, increasing |-> TRUE] :
                 k \in {"speed", "cadence"} }

\* One iteration of a `while let Some(n) = notifications.next().await` loop.
PipeNotify(kind, m, r) ==
    /\ out.op = kind
    /\ ~out.stopped
    /\ out.n < MaxNotifications
    /\ IF Stops(r)
       THEN /\ out' = [out EXCEPT !.stopped = TRUE]
            /\ UNCHANGED <<a, b>>
       ELSE /\ b' = IF r.result = None THEN b
                    ELSE [count |-> AddCount(b.count, r.result[1].new),
                          rate |-> Some(Shown(kind, r.result[1].rpm)),
                          updates |-> b.updates + 1]
            /\ a' = StorePrev(a, m, r.result)
            /\ out' = [out EXCEPT
                         !.n = @ + 1,
                         !.last = Some(m),
                         !.delta = r.result,
                         !.increasing =
                             /\ @
                             /\ PipeSub(kind, m) # None
                             /\ a # None =>
                                  /\ PipeSub(kind, a[1]) # None
                                  /\ PipeSub(kind, m)[1].revolution_count
                                       > PipeSub(kind, a[1])[1].revolution_count]
    /\ UNCHANGED workoutVars

\* The speed loop of main.rs.
PipeSpeed ==
    \E m \in PipeMeasurements :
        \E r \in checked_wheel_rpm_and_new_count(a, m) : PipeNotify("speed", m, r)

\* The cadence loop of main.rs.
PipeCadence ==
    \E m \in PipeMeasurements :
        \E r \in checked_crank_rpm_and_new_count(a, m) : PipeNotify("cadence", m, r)

NextPipe ==
    \/ PipeSpeed
    \/ PipeCadence

SpecPipe == InitPipe /\ [][NextPipe]_vars

\* C22: in the speed and the cadence loop, a notification whose delta is
\* None leaves the displayed rate and the cumulative count as they were, and
\* still replaces the stored previous measurement by the new one.
C22_NoneKeepsDisplayReplacesPrevious ==
    [][(out'.n = out.n + 1 /\ out'.delta = None) =>
           /\ b' = b
           /\ a' = out'.last
           /\ a' # None]_vars

\* A speed notification without wheel data after an accepted one: the
\* display keeps the rate and the count, and the stored measurement is the
\* new one.
C22_Witness ==
    /\ out.op = "speed"
    /\ out.n = 2
    /\ out.delta = None
    /\ b.updates = 1
    /\ b.count = 1
    /\ a = out.last
    /\ a # None
    /\ a[1].wheel = None

\* C27: in the speed loop the cumulative wheel count never decreases, and
\* after notifications that all carried wheel data with strictly increasing
\* counts and whose deltas were all accepted, it equals the count of the
\* last notification.
C27_WheelCountFollowsSensor ==
    [][out.op = "speed" =>
           /\ b'.count >= b.count
           /\ (out'.n > 0 /\ out'.increasing /\ b'.updates = out'.n) =>
                  b'.count = out'.last[1].wheel[1].revolution_count]_vars

\* Three accepted wheel notifications with counts 1, 2, 3 a second apart:
\* the cumulative count is 3.
C27_Witness ==
    /\ out.op = "speed"
    /\ out.n = 3
    /\ out.increasing
    /\ b.updates = 3
    /\ b.count = 3
    /\ out.last[1].wheel = Some(RevolutionData(3, 3 * ClockHz))

\* C23 as stated: checked_wheel_rpm_and_new_count returns for every previous
\* and current measurement, the reset path with a current count of 0 and a
\* non-zero event time included: the call it makes with no previous snapshot
\* is not made again.
C23_Original ==
    (out.op = "wheel" /\ out.called) => ~out.inner.diverged

\* C26 as stated: every Some((rate, new_count)) of the crank or the wheel
\* delta has new_count >= 1, a rate above 0 and not above the kind's ceiling,
\* computed from an elapsed time in (0, 64) s; and a sensor whose count has
\* not changed since the previous snapshot yields None.
C26_Original ==
    (out.op \in {"crank", "wheel"}) =>
        /\ out.result # None =>
               /\ out.result[1].new >= 1
               /\ out.result[1].rpm.revs > 0
               /\ out.result[1].rpm.ticks > 0
               /\ out.result[1].rpm.ticks < WrapSeconds * ClockHz
               /\ ~RateOver(out.result[1].rpm.revs, out.result[1].rpm.ticks,
                            IF out.op = "crank" THEN 271 ELSE 1250)
        /\ (a # None /\ b.revolution_count = PrevCount) => out.result = None

\* C24: once running is false it stays false, and the scheduler calls
\* set_power at most once more: such a call is the call on entry to a step,
\* never the re-application of a changed offset, and after it the thread
\* only sleeps, polls and ends without another call; a poll that sees
\* running = false makes no call and ends the thread.
C24_AtMostOneCallAfterStop ==
    [][~running =>
           /\ ~running'
           /\ Called => (pc = "call" /\ lastCall'.entry /\ pc' = "sleep")
           /\ pc \in {"sleep", "poll", "done"} =>
                  (~Called /\ pc' \in {"sleep", "poll", "done"})
           /\ pc = "poll" => (pc' \in {"poll", "done"} /\ last_offset' = last_offset)]_vars

\* The thread has ended after exit() with a changed offset that no poll
\* applied: the last call is still the entry call of the step.
C24_Witness ==
    /\ ~running
    /\ pc = "done"
    /\ exitPc = "returned"
    /\ lastCall # NoCall
    /\ lastCall.entry
    /\ offset # last_offset
    /\ iter # <<>>

\* ------------------------------------- the mutexes of the workout callback

\* How many set_power calls the workout thread makes and how many button
\* events the button thread handles.
MaxCallbacks == 2
MaxEvents == 2

\* The button events that lock something: the presses of E and D and the
\* holds of E and D.
LockEvents == {"press_e", "press_d", "hold_e", "hold_d"}

\* The three mutexes (power target, display, WorkoutState), all free; both
\* threads between two operations; offset and last_offset 0.
InitLocks ==
    /\ WorkoutIdle
    /\ a = [power_target |-> "free", display |-> "free", state |-> "free"]
    /\ b = [workout |-> "idle", button |-> "idle", in_poll |-> FALSE,
            offset |-> 0, last_offset |-> 0, event |-> "none"]
    /\ out = [op |-> "locks", callbacks |-> 0, events |-> 0, page |-> "Standard"]

\* The workout thread enters a step: set_power is called with no lock held.
WorkoutEntry ==
    /\ b.workout = "idle"
    /\ out.callbacks < MaxCallbacks
    /\ b' = [b EXCEPT !.workout = "lock_power", !.in_poll = FALSE]
    /\ out' = [out EXCEPT !.callbacks = @ + 1]
    /\ UNCHANGED <<a, workoutVars>>

\* A poll: state_for_thread.lock().  With an unchanged offset the lock is
\* released again; with a changed one set_power is called with it held.
WorkoutPoll ==
    /\ b.workout = "idle"
    /\ a.state = "free"
    /\ IF b.offset = b.last_offset
       THEN UNCHANGED <<a, b, out>>
       ELSE /\ out.callbacks < MaxCallbacks
            /\ a' = [a EXCEPT !.state = "workout"]
            /\ b' = [b EXCEPT !.workout = "lock_power", !.in_poll = TRUE,
                              !.last_offset = b.offset]
            /\ out' = [out EXCEPT !.callbacks = @ + 1]
    /\ UNCHANGED workoutVars

\* The callback: power_target_mutex_workout.lock()
WorkoutLockPower ==
    /\ b.workout = "lock_power"
    /\ a.power_target = "free"
    /\ a' = [a EXCEPT !.power_target = "workout"]
    /\ b' = [b EXCEPT !.workout = "lock_display"]
    /\ UNCHANGED <<out, workoutVars>>

\* The callback: display_mutex_workout.lock()
WorkoutLockDisplay ==
    /\ b.workout = "lock_display"
    /\ a.display = "free"
    /\ a' = [a EXCEPT !.display = "workout"]
    /\ b' = [b EXCEPT !.workout = "set_page"]
    /\ UNCHANGED <<out, workoutVars>>

\* The callback: set_page, then the guards are dropped at the end of the
\* block, and the poll's guard at the end of its block.
WorkoutSetPage ==
    /\ b.workout = "set_page"
    /\ out' = [out EXCEPT !.page = "PowerTrack"]
    /\ a' = [a EXCEPT !.display = "free", !.power_target = "free",
                      !.state = IF b.in_poll THEN "free" ELSE @]
    /\ b' = [b EXCEPT !.workout = "idle", !.in_poll = FALSE]
    /\ UNCHANGED workoutVars

\* for event in button_rx: the next event.
ButtonEvent ==
    /\ b.button = "idle"
    /\ out.events < MaxEvents
    /\ \E e \in LockEvents :
        b' = [b EXCEPT !.event = e,
                       !.button = IF e \in {"hold_e", "hold_d"}
                                  THEN "lock_state" ELSE "lock_display"]
    /\ out' = [out EXCEPT !.events = @ + 1]
    /\ UNCHANGED <<a, workoutVars>>

\* A press of E or D: display_mutex_button_rx.lock()
ButtonLockDisplay ==
    /\ b.button = "lock_display"
    /\ a.display = "free"
    /\ a' = [a EXCEPT !.display = "button"]
    /\ b' = [b EXCEPT !.button = IF b.event = "press_d" THEN "lock_power" ELSE "set_page"]
    /\ UNCHANGED <<out, workoutVars>>

\* A press of D: power_target_mutex_button_rx.lock(), the display held.
ButtonLockPower ==
    /\ b.button = "lock_power"
    /\ a.power_target = "free"
    /\ a' = [a EXCEPT !.power_target = "button"]
    /\ b' = [b EXCEPT !.button = "set_page"]
    /\ UNCHANGED <<out, workoutVars>>

\* A press: set_page, then the guards are dropped at the end of the arm.
ButtonSetPage ==
    /\ b.button = "set_page"
    /\ out' = [out EXCEPT !.page = IF b.event = "press_d" THEN "PowerTrack" ELSE "Standard"]
    /\ a' = [a EXCEPT !.display = "free",
                      !.power_target = IF @ = "button" THEN "free" ELSE @]
    /\ b' = [b EXCEPT !.button = "idle"]
    /\ UNCHANGED workoutVars

\* A hold: add_offset locks WorkoutState, adds -5 or 5 and unlocks.
ButtonAddOffset ==
    /\ b.button = "lock_state"
    /\ a.state = "free"
    /\ b' = [b EXCEPT !.button = "idle",
                      !.offset = @ + (IF b.event = "hold_e" THEN -OffsetStep ELSE OffsetStep)]
    /\ UNCHANGED <<a, out, workoutVars>>

NextLocks ==
    \/ WorkoutEntry
    \/ WorkoutPoll
    \/ WorkoutLockPower
    \/ WorkoutLockDisplay
    \/ WorkoutSetPage
    \/ ButtonEvent
    \/ ButtonLockDisplay
    \/ ButtonLockPower
    \/ ButtonSetPage
    \/ ButtonAddOffset

SpecLocks == InitLocks /\ [][NextLocks]_vars

\* C25 as stated: no interleaving reaches a state in which the workout
\* thread holds the power-target mutex and waits for the display mutex
\* while the button thread holds the display mutex and waits for the
\* power-target mutex.
C25_Original ==
    ~ /\ a.power_target = "workout"
      /\ b.workout = "lock_display"
      /\ a.display = "button"
      /\ b.button = "lock_power"

\* ------------------------------------------------- the telemetry database

\* How many times the program starts, how many entries it stores, and the
\* largest reading of the wall clock.
MaxStartups == 3
MaxInserts == 3
MaxClock == 3

\* u64::max_value(), which the integers of the model cannot hold: the
\* largest integer they can, above every key that is stored here.
U64Max == 2147483647

\* The order of sled's keys: byte strings compared from the left, a proper
\* prefix before its extensions.  bincode's big-endian fixed-width encoding
\* makes it the order of the sequences of field values.
RECURSIVE LexLess(_, _)
LexLess(x, y) ==
    IF y = <<>> THEN FALSE
    ELSE IF x = <<>> THEN TRUE
    ELSE IF Head(x) # Head(y) THEN Head(x) < Head(y)
    ELSE LexLess(Tail(x), Tail(y))

\* serial_config.serialize(&(session_key, elapsed, nt)): the session key,
\* the seconds and nanoseconds of the Duration, and the variant index of the
\* notification type (0 for Ble, 1 for Gps).
SerializeEntry(session_key, elapsed, nt) == <<session_key, elapsed[1], elapsed[2], nt>>

\* serial_config.serialize(&key)
SerializeKey(key) == <<key>>

\* decode_key(k).0
decode_key_0(k) == k[1]

\* db.get_lt(key): the greatest stored key below `key`.
get_lt(db, key) ==
    LET lower == { e \in db : LexLess(e, key) }
    IN  IF lower = {} THEN None
        ELSE Some(CHOOSE e \in lower : \A f \in lower : f = e \/ LexLess(f, e))

\* db.get_gt(key): the least stored key above `key`.
get_gt(db, key) ==
    LET upper == { e \in db : LexLess(key, e) }
    IN  IF upper = {} THEN None
        ELSE Some(CHOOSE e \in upper : \A f \in upper : f = e \/ LexLess(e, f))

\* get_previous_session(key)
get_previous_session(db, key) ==
    LET x == get_lt(db, SerializeKey(key))
    IN  IF x = None THEN None ELSE Some(decode_key_0(x[1]))

\* get_most_recent_session()
get_most_recent_session(db) == get_previous_session(db, U64Max)

\* u64::max
u64_max(x, y) == IF x >= y THEN x ELSE y

\* Variant: the most recent stored key itself is good enough.
SessionKey_NoIncrement(clock, recent) ==
    u64_max(clock, IF recent = None THEN 0 ELSE recent[1])

\* u64::max(now.as_secs(), db.get_most_recent_session().unwrap_or(0) + 1)
SessionKey(clock, recent) ==
    u64_max(clock, (IF recent = None THEN 0 ELSE recent[1]) + 1)

\* The elapsed times and notification types of the stored entries.
ElapsedSamples == { <<0, 1>>, <<1, 0>> }
TypeSamples == {0, 1}

\* An empty database and a program that has not started yet.
InitDb ==
    /\ WorkoutIdle
    /\ a = {}
    /\ b = [session_key |-> None, startups |-> 0, clock |-> 0]
    /\ out = [op |-> "none", inserts |-> 0]

\* The program starts, reads the wall clock, which can read anything, and
\* chooses its session key.
DbStartup ==
    /\ b.startups < MaxStartups
    /\ \E clock \in 0..MaxClock :
        b' = [session_key |-> Some(SessionKey(clock, get_most_recent_session(a))),
              startups |-> b.startups + 1,
              clock |-> clock]
    /\ out' = [out EXCEPT !.op = "startup"]
    /\ UNCHANGED <<a, workoutVars>>

\* db.insert(session_key, elapsed, notification) of a running program.
DbInsert ==
    /\ b.session_key # None
    /\ out.inserts < MaxInserts
    /\ \E elapsed \in ElapsedSamples, nt \in TypeSamples :
        a' = a \cup {SerializeEntry(b.session_key[1], elapsed, nt)}
    /\ out' = [op |-> "insert", inserts |-> out.inserts + 1]
    /\ UNCHANGED <<b, workoutVars>>

NextDb ==
    \/ DbStartup
    \/ DbInsert

SpecDb == InitDb /\ [][NextDb]_vars

\* C28: the session key chosen at a start is the larger of the clock reading
\* and the most recent stored key plus 1, and is strictly greater than every
\* session key stored in the database, whatever the clock reads; so no entry
\* is ever stored under a key below a stored one of an earlier session.
C28_SessionKeyAboveStored ==
    [][b'.startups = b.startups + 1 =>
           /\ \A e \in a : decode_key_0(e) < b'.session_key[1]
           /\ b'.session_key[1] >= b'.clock
           /\ \/ b'.session_key[1] = b'.clock
              \/ \E e \in a : b'.session_key[1] = decode_key_0(e) + 1
              \/ (a = {} /\ b'.session_key[1] = 1)]_vars

\* The third start reads a clock of 0 with entries stored under the keys 3
\* and 4: the key chosen is 5.
C28_Witness ==
    /\ b.startups = 3
    /\ b.clock = 0
    /\ b.session_key = Some(5)
    /\ out.op = "startup"
    /\ \E e \in a : decode_key_0(e) = 3
    /\ \E e \in a : decode_key_0(e) = 4

\* Variant: a session is taken to exist when any entry follows its key.
check_session_Loose(db, key) == get_gt(db, SerializeKey(key)) # None

\* check_session(key)
check_session(db, key) ==
    LET x == get_gt(db, SerializeKey(key))
    IN  IF x = None THEN FALSE ELSE decode_key_0(x[1]) = key

\* The loop of sessions_between_inclusive: the keys pushed so far, the key
\* looked up last, and the key to stop at.  unwrap() panics when there is no
\* previous session.
RECURSIVE SessionsWalk(_, _, _, _)
SessionsWalk(db, v, last, stop) ==
    LET prev == get_previous_session(db, last)
    IN  IF prev = None
        THEN [panicked |-> TRUE, v |-> v]
        ELSE IF prev[1] = stop
        THEN [panicked |-> FALSE, v |-> Append(v, prev[1])]
        ELSE SessionsWalk(db, Append(v, prev[1]), prev[1], stop)

\* v.reverse()
Reverse(v) == [i \in 1..Len(v) |-> v[Len(v) + 1 - i]]

\* sessions_between_inclusive(a, b)
sessions_between_inclusive(db, qa, qb) ==
    LET a_exists == check_session(db, qa)
        b_exists == check_session(db, qb)
    IN  IF qa > qb \/ ~a_exists \/ ~b_exists
        THEN [op |-> "sessions", panicked |-> FALSE, result |-> None]
        ELSE IF qa = qb
        THEN [op |-> "sessions", panicked |-> FALSE, result |-> Some(<<qa>>)]
        ELSE LET w == SessionsWalk(db, <<qb>>, qb, qa)
             IN  [op |-> "sessions", panicked |-> w.panicked,
                  result |-> IF w.panicked THEN None ELSE Some(Reverse(w.v))]

\* The largest session key of the sampled databases.
KeyTop == 4

\* The sampled databases: every session key up to KeyTop has no entry, one
\* entry or two.
SessionEntries(k, n) ==
    IF n = 0 THEN {}
    ELSE IF n = 1 THEN {SerializeEntry(k, <<0, 1>>, 1)}
    ELSE {SerializeEntry(k, <<0, 1>>, 0), SerializeEntry(k, <<1, 0>>, 1)}
DbSamples ==
    { UNION { SessionEntries(k, f[k]) : k \in 0..KeyTop } : f \in [0..KeyTop -> 0..2] }

\* A database and the two keys asked for.
InitSessions ==
    /\ WorkoutIdle
    /\ a \in DbSamples
    /\ b \in [qa : 0..(KeyTop + 1), qb : 0..(KeyTop + 1)]
    /\ out = NoOut

\* db.sessions_between_inclusive(b.qa, b.qb)
SessionsBetween ==
    /\ out.op = "none"
    /\ out' = sessions_between_inclusive(a, b.qa, b.qb)
    /\ UNCHANGED <<a, b, workoutVars>>

NextSessions == SessionsBetween

SpecSessions == InitSessions /\ [][NextSessions]_vars

\* The session keys that have entries.
StoredKeys == { decode_key_0(e) : e \in a }

\* C29: sessions_between_inclusive(a, b) returns None when a > b or when a
\* or b has no stored entries; otherwise it returns, without panicking,
\* exactly the stored session keys k with a <= k <= b, each once, in
\* ascending order.
C29_SessionsBetween ==
    out.op = "sessions" =>
        /\ ~out.panicked
        /\ (b.qa > b.qb \/ b.qa \notin StoredKeys \/ b.qb \notin StoredKeys) =>
               out.result = None
        /\ (b.qa <= b.qb /\ b.qa \in StoredKeys /\ b.qb \in StoredKeys) =>
               /\ out.result # None
               /\ LET v == out.result[1]
                  IN  /\ { v[i] : i \in 1..Len(v) }
                           = { k \in StoredKeys : b.qa <= k /\ k <= b.qb }
                      /\ \A i \in 1..(Len(v) - 1) : v[i] < v[i + 1]

\* Sessions 0, 2 and 4 are stored, 2 with two entries, 1 and 3 are not: the
\* keys between 0 and 4 are 0, 2, 4.
C29_Witness ==
    /\ out.op = "sessions"
    /\ StoredKeys = {0, 2, 4}
    /\ Cardinality(a) = 4
    /\ b = [qa |-> 0, qb |-> 4]
    /\ out.result = Some(<<0, 2, 4>>)

\* ------------------------------------------------ framing of GPS sentences

\* How many reads of the UART the loop makes.
MaxReads == 5

\* vec![0; 82]
BufferLen == 82

\* Carriage return, line feed, and a byte that is neither.
CR == 13
LF == 10
OtherByte == 65

\* k bytes that are neither CR nor LF.
Fill(k) == [i \in 1..k |-> OtherByte]

\* What one uart.read can deliver: nothing, single bytes, a CR LF alone,
\* after a byte and inside a chunk, a chunk that ends in CR one byte short of
\* the buffer's length, and a chunk as long as the buffer without any CR LF.
GpsChunks ==
    { <<>>, <<OtherByte>>, <<CR>>, <<CR, LF>>, <<OtherByte, CR, LF>>,
      <<OtherByte, CR, LF, OtherByte>>,
      Fill(BufferLen - 2) \o <<CR>>, Fill(BufferLen) }

\* The buffer after uart.read(&mut buffer[end..]) wrote the chunk.
WriteAt(buffer, end, chunk) ==
    [i \in 1..BufferLen |->
        IF end < i /\ i <= end + Len(chunk) THEN chunk[i - end] ELSE buffer[i]]

\* buffer[..].rotate_left(i)
rotate_left(buffer, i) ==
    [j \in 1..BufferLen |-> buffer[((j - 1 + i) % BufferLen) + 1]]

\* The for loop over i in start..end: the sentence end found, whether
\* buffer[i + 1] was read past the buffer, and the largest index read.
RECURSIVE ScanFrom(_, _, _, _)
ScanFrom(buffer, i, end, top) ==
    IF i >= end
    THEN [sentence_end |-> None, out_of_range |-> FALSE, top |-> top]
    ELSE IF buffer[i + 1] # CR
    THEN ScanFrom(buffer, i + 1, end, i)
    ELSE IF i + 1 >= BufferLen
    THEN [sentence_end |-> None, out_of_range |-> TRUE, top |-> i + 1]
    ELSE IF buffer[i + 2] = LF
    THEN [sentence_end |-> Some(i + 2), out_of_range |-> FALSE, top |-> i + 1]
    ELSE ScanFrom(buffer, i + 1, end, i + 1)

\* One iteration of the loop from the buffer, the end pointer and the chunk
\* read: the new buffer and end pointer and what the iteration computed.
\* `end - byte_count - 1` below 0 panics in a build with overflow checks and
\* wraps to a start above `end`, an empty range, in one without; so does
\* `end - i`, whose wrapped value is kept as the negative number.
GpsIteration(buffer, end, chunk) ==
    LET byte_count == Len(chunk)
        buffer1 == WriteAt(buffer, end, chunk)
        end1 == end + byte_count
        start == end1 - byte_count - 1
        base == [op |-> "read", start |-> start, top |-> -1,
                 out_of_range |-> FALSE, sentence_end |-> None,
                 panicked |-> FALSE, buffer |-> buffer1, end |-> end1]
        scan == ScanFrom(buffer1, start, end1, -1)
        scanned == [base EXCEPT !.top = scan.top,
                                !.out_of_range = scan.out_of_range,
                                !.sentence_end = scan.sentence_end]
    IN  IF start < 0
        THEN {[base EXCEPT !.panicked = TRUE], base}
        ELSE IF scan.out_of_range
        THEN {[scanned EXCEPT !.panicked = TRUE]}
        ELSE IF scan.sentence_end = None
        THEN {scanned}
        ELSE LET i == scan.sentence_end[1]
                 rotated == [scanned EXCEPT !.buffer = rotate_left(buffer1, i),
                                            !.end = end1 - i]
             IN  IF end1 - i < 0
                 THEN {[rotated EXCEPT !.panicked = TRUE], rotated}
                 ELSE {rotated}

\* The thread before its first read: a buffer of zeros and end = 0.
InitGps ==
    /\ WorkoutIdle
    /\ a = [i \in 1..BufferLen |-> 0]
    /\ b = [end |-> 0, reads |-> 0]
    /\ out = [op |-> "none", panicked |-> FALSE]

\* One iteration of the loop; uart.read delivers at most the bytes that fit
\* buffer[end..], and slicing at a wrapped end pointer panics.
GpsRead ==
    /\ ~out.panicked
    /\ b.reads < MaxReads
    /\ IF b.end < 0
       THEN /\ out' = [op |-> "slice", panicked |-> TRUE]
            /\ b' = [b EXCEPT !.reads = @ + 1]
            /\ UNCHANGED a
       ELSE \E chunk \in GpsChunks :
              /\ Len(chunk) <= BufferLen - b.end
              /\ \E r \in GpsIteration(a, b.end, chunk) :
                   /\ out' = [op |-> "read", start |-> r.start, top |-> r.top,
                              out_of_range |-> r.out_of_range,
                              sentence_end |-> r.sentence_end,
                              panicked |-> r.panicked]
                   /\ a' = r.buffer
                   /\ b' = [end |-> r.end, reads |-> b.reads + 1]
    /\ UNCHANGED workoutVars

NextGps == GpsRead

SpecGps == InitGps /\ [][NextGps]_vars

\* C30 as stated: in every iteration the scan start is not negative, the
\* indices i and i + 1 that are read stay within 0..81, the end pointer
\* stays within 0..82, and nothing panics.
C30_Original ==
    /\ b.end >= 0
    /\ b.end <= BufferLen
    /\ out.op = "read" =>
           /\ out.start >= 0
           /\ out.top <= BufferLen - 1
           /\ ~out.out_of_range
           /\ ~out.panicked

====
